---------------------------- MODULE Spec2Model ----------------------------
(***************************************************************************)
(* A model of the Datastar core (library/src/lib/core.ts): the plugin      *)
(* registry built by the constructor, run(), the per-plugin tree walk of   *)
(* applyPlugins with its removal registry, and mergeStore.                 *)
(*                                                                         *)
(* Strings the code takes apart (attribute names, prefixes, expressions,   *)
(* tag names) are sequences of one-character strings.                      *)
(***************************************************************************)
EXTENDS Integers, Sequences, FiniteSets, TLC

VARIABLES
    \* ---- constructor (core.ts 31-49)
    ctorArgs,           \* [core |-> CorePlugins, user |-> the rest arguments]
    ctorPc,             \* "start" | "loop" | "done" | "threw"
    ctorList,           \* the local `plugins` = [...CorePlugins, ...plugins]
    ctorPos,            \* index of the plugin the for-of loop is at
    allPluginPrefixes,  \* the local Set<string>
    plugins,            \* this.plugins
    \* ---- the document
    kids,               \* element -> its element children, in order
    dataset,            \* element -> its data-* entries, in attribute order
    foreignEls,         \* the elements that are neither HTMLElement nor SVGElement
    elId,               \* element -> 0 (el.id is empty) or the number n of "ds--n"
    \* ---- Datastar instance
    missingIDNext,      \* this.missingIDNext
    removals,           \* this.removals: element -> its Set of teardowns, in insertion order
    store,              \* this.store: the identity of the current deepSignal instance
    \* ---- control
    pc,                 \* "new" | "ginit" | "apply" | "idle" | "threw"
    gi,                 \* index of the plugin run()'s forEach is at
    stack,              \* activations of applyPlugins, outermost first
    \* ---- history
    hist                \* record of observations used to state the properties

vars == << ctorArgs, ctorPc, ctorList, ctorPos, allPluginPrefixes, plugins, kids, dataset,
           foreignEls, elId,
           missingIDNext, removals, store, pc, gi, stack, hist >>

ctorVars == << ctorArgs, ctorPc, ctorList, ctorPos, allPluginPrefixes, plugins >>
docVars == << kids, dataset, foreignEls, elId >>

-----------------------------------------------------------------------------
(* Sequences and character strings *)

Range(s) == { s[i] : i \in 1..Len(s) }

Last(s) == s[Len(s)]

SeqRemove(s, x) == SelectSeq(s, LAMBDA y : y # x)

InsertAt(s, i, x) == SubSeq(s, 1, i - 1) \o << x >> \o SubSeq(s, i, Len(s))

IndexOf(s, x) == IF x \in Range(s) THEN CHOOSE i \in 1..Len(s) : s[i] = x /\ \A j \in 1..(i - 1) : s[j] # x ELSE 0

\* String.prototype.includes in the place of startsWith
StartsWithAnywhere(s, p) == \E i \in 0..(Len(s) - Len(p)) : SubSeq(s, i + 1, i + Len(p)) = p

\* String.prototype.startsWith
StartsWith(s, p) == Len(p) <= Len(s) /\ SubSeq(s, 1, Len(p)) = p

\* String.prototype.slice(n) for 0 <= n
Slice(s, n) == SubSeq(s, n + 1, Len(s))

\* String.prototype.split(ch): the pieces between the occurrences of ch
RECURSIVE Split(_, _)
Split(s, ch) ==
    IF ch \notin Range(s) THEN << s >>
    ELSE LET i == IndexOf(s, ch)
         IN  << SubSeq(s, 1, i - 1) >> \o Split(Slice(s, i), ch)

\* Array.prototype.join(ch)
RECURSIVE Join(_, _)
Join(parts, ch) ==
    IF Len(parts) = 0 THEN << >>
    ELSE IF Len(parts) = 1 THEN parts[1]
    ELSE parts[1] \o << ch >> \o Join(Tail(parts), ch)

\* toLowerCase on one character of the alphabet used here
LowerCaseChar(c) ==
    CASE c = "C" -> "c"
      [] c = "K" -> "k"
      [] c = "T" -> "t"
      [] OTHER -> c

\* substring test: what String.prototype.match does with an unanchored literal pattern
Contains(s, p) == \E i \in 0..(Len(s) - Len(p)) : SubSeq(s, i + 1, i + Len(p)) = p

-----------------------------------------------------------------------------
(* Plugins (types.ts AttributePlugin, as core.ts reads it) *)

NoPrefixes == { }

\* A plugin descriptor with every optional member absent.
Plugin(prefix, required) ==
    [ prefix |-> prefix,
      requiredPluginPrefixes |-> required,
      onGlobalInit |-> FALSE,
      mustHaveEmptyKey |-> FALSE,
      mustNotEmptyKey |-> FALSE,
      mustHaveEmptyExpression |-> FALSE,
      mustNotEmptyExpression |-> FALSE,
      hasAllowedTagRegexps |-> FALSE,
      allowedTagRegexps |-> { },
      hasAllowedModifiers |-> FALSE,
      allowedModifiers |-> { },
      preprocessors |-> << >>,
      bypassExpressionFunctionCreation |-> FALSE ]

-----------------------------------------------------------------------------
(* The constructor, core.ts 31-49 *)

MaxCtorLen == 3

CtorPrefixes == { << "t" >>, << "o", "n" >>, << "r" >> }

CtorRequired == { NoPrefixes } \cup { { q } : q \in CtorPrefixes }

CtorPlugins == { Plugin(q, r) : q \in CtorPrefixes, r \in CtorRequired }

SeqsUpTo(S, n) == UNION { [1..k -> S] : k \in 0..n }

\* line 33
CombinedPlugins(core, user) == core \o user

\* line 34
NoPluginsProvided(list) == Len(list) = 0

\* the check made after the plugin's own prefix was added to the set
RequirementMissingAfterAdd(p, prefixes) ==
    \E requiredPluginType \in p.requiredPluginPrefixes : requiredPluginType \notin (prefixes \cup { p.prefix })

\* lines 38-44: some required prefix is not yet in allPluginPrefixes
RequirementMissing(p, prefixes) ==
    \E requiredPluginType \in p.requiredPluginPrefixes : requiredPluginType \notin prefixes

\* lines 31-35
CtorStart ==
    /\ ctorPc = "start"
    /\ ctorList' = CombinedPlugins(ctorArgs.core, ctorArgs.user)
    /\ ctorPc' = IF NoPluginsProvided(ctorList') THEN "threw" ELSE "loop"
    /\ ctorPos' = 1
    /\ allPluginPrefixes' = { }
    /\ UNCHANGED << ctorArgs, plugins, docVars, missingIDNext, removals, store, pc, gi, stack, hist >>

\* one iteration of the for-of loop, lines 37-48
CtorStep ==
    /\ ctorPc = "loop"
    /\ ctorPos <= Len(ctorList)
    /\ LET p == ctorList[ctorPos]
       IN  IF RequirementMissing(p, allPluginPrefixes)
           THEN /\ ctorPc' = "threw"
                /\ UNCHANGED << plugins, allPluginPrefixes, ctorPos >>
           ELSE /\ plugins' = Append(plugins, p)
                /\ allPluginPrefixes' = allPluginPrefixes \cup { p.prefix }
                /\ ctorPos' = ctorPos + 1
                /\ ctorPc' = IF ctorPos + 1 > Len(ctorList) THEN "done" ELSE "loop"
    /\ UNCHANGED << ctorArgs, ctorList, docVars, missingIDNext, removals, store, pc, gi, stack, hist >>

\* The whole constructor as a function of its arguments: the plugin list it leaves in
\* this.plugins, or "threw".
RECURSIVE CtorLoop(_, _, _, _)
CtorLoop(list, pos, prefixes, acc) ==
    IF pos > Len(list) THEN [ threw |-> FALSE, plugins |-> acc ]
    ELSE IF RequirementMissing(list[pos], prefixes) THEN [ threw |-> TRUE, plugins |-> acc ]
    ELSE CtorLoop(list, pos + 1, prefixes \cup { list[pos].prefix }, Append(acc, list[pos]))

Constructor(core, user) ==
    IF NoPluginsProvided(CombinedPlugins(core, user))
    THEN [ threw |-> TRUE, plugins |-> << >> ]
    ELSE CtorLoop(CombinedPlugins(core, user), 1, { }, << >>)

-----------------------------------------------------------------------------
(* The document: elements, their children, their data-* entries *)

El == { 1, 2, 3 }

\* document.body (line 63)
Body == 1

NoEl == 0

TagBody == << "b", "o", "d", "y" >>
TagDiv == << "d", "i", "v" >>
TagInput == << "i", "n", "p", "u", "t" >>
TagMath == << "m", "a", "t", "h" >>

\* el.tagName.toLowerCase() (line 104); element 3 is a <math> element in the documents
\* whose `foreign` set holds it, an <input> otherwise
TagName(e, foreign) ==
    IF e \in foreign THEN TagMath
    ELSE IF e = Body THEN TagBody
    ELSE IF e = 2 THEN TagDiv
    ELSE TagInput

\* toHTMLorSVGElement(element) # null (line 212): the element is an HTMLElement or an
\* SVGElement
IsHTMLorSVG(e, foreign) == e \notin foreign

Parent(k, e) == IF \E q \in El : e \in Range(k[q]) THEN CHOOSE q \in El : e \in Range(k[q]) ELSE NoEl

\* element.lastElementChild in the place of firstElementChild
LastElementChild(k, e) == IF Len(k[e]) = 0 THEN NoEl ELSE k[e][Len(k[e])]

\* element.firstElementChild (line 218)
FirstElementChild(k, e) == IF Len(k[e]) = 0 THEN NoEl ELSE k[e][1]

\* element.nextElementSibling (line 221), read from the live tree
NextElementSibling(k, e) ==
    LET q == Parent(k, e)
    IN  IF q = NoEl THEN NoEl
        ELSE LET i == IndexOf(k[q], e)
             IN  IF i < Len(k[q]) THEN k[q][i + 1] ELSE NoEl

RECURSIVE Subtree(_, _)
Subtree(k, e) == { e } \cup UNION { Subtree(k, c) : c \in Range(k[e]) }

\* the elements a walk from root can reach: walkDownDOM does not descend below an
\* element that is neither HTML nor SVG
RECURSIVE Walkable(_, _, _)
Walkable(k, foreign, e) ==
    IF ~IsHTMLorSVG(e, foreign) THEN { }
    ELSE { e } \cup UNION { Walkable(k, foreign, c) : c \in Range(k[e]) }

Detached(k, e) == [ q \in El |-> SeqRemove(k[q], e) ]

\* parent.insertBefore(e, parent.children[i - 1]) / append when i is past the end
Inserted(k, e, q, i) == LET d == Detached(k, e) IN [ d EXCEPT ![q] = InsertAt(d[q], i, e) ]

Names(ds) == [ i \in 1..Len(ds) |-> ds[i].name ]

HasAttr(ds, name) == \E i \in 1..Len(ds) : ds[i].name = name

AttrValue(ds, name) == (CHOOSE a \in Range(ds) : a.name = name).value

\* el.dataset[name] = value: overwrite in place, or append as the last attribute
WithAttr(ds, name, value) ==
    IF HasAttr(ds, name)
    THEN [ i \in 1..Len(ds) |-> IF ds[i].name = name THEN [ name |-> name, value |-> value ] ELSE ds[i] ]
    ELSE Append(ds, [ name |-> name, value |-> value ])

WithoutAttr(ds, name) == SelectSeq(ds, LAMBDA a : a.name # name)

-----------------------------------------------------------------------------
(* One attribute occurrence, core.ts 93-196: everything applyPlugins does with one    *)
(* dataset entry before it calls onLoad                                               *)

\* A preprocessor: `regexp` matches every occurrence of the character pat, with the
\* named group `whole` (when hasGroups) bound to the match; replacer returns rep.
Preprocessor(pat, rep, hasGroups) == [ pat |-> pat, rep |-> rep, hasGroups |-> hasGroups ]

\* CorePreprocessors (plugins/core): one rule, rewriting the signal sigil
CorePreprocessors == << Preprocessor("$", << "s" >>, TRUE) >>

\* [...expression.matchAll(processor.regexp)].length
MatchCount(expression, pat) == Cardinality({ i \in 1..Len(expression) : expression[i] = pat })

\* expression.replace(whole, replacement): the first occurrence of `whole` only
ReplaceFirst(expression, whole, replacement) ==
    LET i == IndexOf(expression, whole)
    IN  IF i = 0 THEN expression
        ELSE SubSeq(expression, 1, i - 1) \o replacement \o Slice(expression, i)

\* lines 157-162, once per match found before the first replacement
RECURSIVE ReplaceMatches(_, _, _)
ReplaceMatches(expression, processor, n) ==
    IF n = 0 THEN expression
    ELSE ReplaceMatches(ReplaceFirst(expression, processor.pat, processor.rep), processor, n - 1)

\* lines 152-164: the loop over processors, with the appliedProcessors set that line
\* 101 emptied
RECURSIVE ApplyProcessors(_, _, _)
ApplyProcessors(expression, processors, appliedProcessors) ==
    IF Len(processors) = 0 THEN expression
    ELSE LET processor == Head(processors)
         IN  IF processor \in appliedProcessors
             THEN ApplyProcessors(expression, Tail(processors), appliedProcessors)
             ELSE ApplyProcessors(
                      IF processor.hasGroups
                      THEN ReplaceMatches(expression, processor, MatchCount(expression, processor.pat))
                      ELSE expression,
                      Tail(processors),
                      appliedProcessors \cup { processor })

\* appliedProcessors is left as the last occurrence filled it
NeverCleared(appliedProcessors) == appliedProcessors

\* line 101: appliedProcessors.clear()
Cleared(appliedProcessors) == { }

\* lines 151-164
Preprocessed(p, expression, appliedProcessors) ==
    ApplyProcessors(expression, CorePreprocessors \o p.preprocessors, appliedProcessors)

\* lines 153-154: appliedProcessors once the loop is over
AppliedAfter(p, appliedProcessors) == appliedProcessors \cup Range(CorePreprocessors \o p.preprocessors)

\* lines 116-117 and 124-126
KeyRaw(p, dsKey) == Slice(dsKey, Len(p.prefix))

RawKey(p, dsKey) == Head(Split(KeyRaw(p, dsKey), "."))

\* key.toLowerCase()
LowerCasedKey(key) == [ i \in 1..Len(key) |-> LowerCaseChar(key[i]) ]

NormalisedKey(key) == IF Len(key) > 0 THEN << LowerCaseChar(key[1]) >> \o Slice(key, 1) ELSE key

\* lines 128-131
ModifiersArr(p, dsKey) ==
    LET modifiersWithArgsArr == Tail(Split(KeyRaw(p, dsKey), "."))
    IN  [ i \in 1..Len(modifiersWithArgsArr) |->
            LET parts == Split(modifiersWithArgsArr[i], "_")
            IN  [ label |-> Head(parts), args |-> Tail(parts) ] ]

\* lines 139-142: a Map, so the last token of a label wins
ModifiersMap(modifiersArr) ==
    [ label \in { m.label : m \in Range(modifiersArr) } |->
        LET i == CHOOSE i \in 1..Len(modifiersArr) :
                     /\ modifiersArr[i].label = label
                     /\ \A j \in (i + 1)..Len(modifiersArr) : modifiersArr[j].label # label
        IN  modifiersArr[i].args ]

\* lines 185-187
FnContent(expression) ==
    LET lines == Split(expression, ";")
        n == Len(lines)
    IN  Join([ lines EXCEPT ![n] = << "r", "e", "t", "u", "r", "n", " " >> \o lines[n] ], ";")

\* new Function('ctx', fnContent) does not throw (lines 188-190): the body parses, which
\* for the expressions used here means that its parentheses balance
RECURSIVE Balanced(_, _)
Balanced(text, open) ==
    IF Len(text) = 0 THEN open = 0
    ELSE IF Head(text) = "(" THEN Balanced(Tail(text), open + 1)
    ELSE IF Head(text) = ")" THEN open > 0 /\ Balanced(Tail(text), open - 1)
    ELSE Balanced(Tail(text), open)

Compiles(fnContent) == Balanced(fnContent, 0)

\* no rule is checked
NoValidation(p, tag, dsKey, expression) == "none"

\* lines 103-149: the first validation that fails, or "none"
ValidationError(p, tag, dsKey, expression) ==
    IF p.hasAllowedTagRegexps /\ ~\E r \in p.allowedTagRegexps : Contains(tag, r)
    THEN "tag"
    ELSE IF p.mustHaveEmptyKey /\ Len(RawKey(p, dsKey)) > 0 THEN "mustHaveEmptyKey"
    ELSE IF p.mustNotEmptyKey /\ Len(RawKey(p, dsKey)) = 0 THEN "mustNotEmptyKey"
    ELSE IF p.hasAllowedModifiers
            /\ \E m \in Range(ModifiersArr(p, dsKey)) : m.label \notin p.allowedModifiers
    THEN "modifier"
    ELSE IF p.mustHaveEmptyExpression /\ Len(expression) > 0 THEN "mustHaveEmptyExpression"
    ELSE IF p.mustNotEmptyExpression /\ Len(expression) = 0 THEN "mustNotEmptyExpression"
    ELSE "none"

\* line 184: an expression function is to be created
CreatesExpressionFunction(p, expression) ==
    ~p.bypassExpressionFunctionCreation /\ ~p.mustHaveEmptyExpression /\ Len(expression) > 0

\* The outcome of lines 93-196 for plugin p on the entry (dsKey, value) of an element
\* with tag `tag`:
\*   "skip"          line 95, continue
\*   "throw"         one of the throws of lines 107-148
\*   "compileError"  the catch of lines 191-195, which returns from the callback
\*   "load"          line 198 is reached
Examine(p, tag, dsKey, value, appliedProcessors) ==
    IF ~StartsWith(dsKey, p.prefix) THEN [ outcome |-> "skip" ]
    ELSE IF ValidationError(p, tag, dsKey, value) # "none"
    THEN [ outcome |-> "throw", error |-> ValidationError(p, tag, dsKey, value), expression |-> value ]
    ELSE LET expression == Preprocessed(p, value, Cleared(appliedProcessors))
             applied == AppliedAfter(p, Cleared(appliedProcessors))
         IN  IF CreatesExpressionFunction(p, expression) /\ ~Compiles(FnContent(expression))
             THEN [ outcome |-> "compileError", appliedProcessors |-> applied ]
             ELSE [ outcome |-> "load",
                    appliedProcessors |-> applied,
                    key |-> NormalisedKey(RawKey(p, dsKey)),
                    modifiers |-> ModifiersMap(ModifiersArr(p, dsKey)),
                    expression |-> expression ]

-----------------------------------------------------------------------------
(* The store, core.ts 19 and 76-79 *)

\* JSON values: null, a primitive, an array, an object (its members by key)
NullValue == [ t |-> "null" ]
Prim(v) == [ t |-> "prim", v |-> v ]
Arr(items) == [ t |-> "arr", items |-> items ]
Obj(members) == [ t |-> "obj", m |-> members ]

EmptyStore == [ k \in { } |-> NullValue ]

\* apply(target, patch) of ts-merge-patch (JSON merge patch): a patch that is no object
\* replaces the target; of an object patch a null member deletes the key and any other
\* member is applied to the target's member of that key, the other keys being kept
RECURSIVE Apply(_, _)
Apply(target, patch) ==
    IF patch.t # "obj" THEN patch
    ELSE LET base == IF target.t = "obj" THEN target.m ELSE EmptyStore
             keys == ((DOMAIN base) \cup (DOMAIN patch.m))
                         \ { k \in DOMAIN patch.m : patch.m[k].t = "null" }
         IN  Obj([ k \in keys |->
                     IF k \in DOMAIN patch.m
                     THEN Apply(IF k \in DOMAIN base THEN base[k] ELSE NullValue, patch.m[k])
                     ELSE base[k] ])

\* apply on the members of two objects
MergePatch(target, patch) == Apply(Obj(target), Obj(patch)).m

\* the store is replaced by the update
ReplacedStore(st, patch) == [ inst |-> st.inst + 1, value |-> patch ]

\* lines 77-78: the merged value in a new deepSignal instance
MergedStore(st, patch) == [ inst |-> st.inst + 1, value |-> MergePatch(st.value, patch) ]

Only(k, v) == [ j \in { k } |-> v ]

Patches == { Only("a", Prim("1")), Only("b", Prim("2")) }

\* the updates of the mergeStore calls made through a retained context
StorePatches ==
    Patches \cup { Only("a", NullValue),
                   Only("a", Obj(Only("a", Prim("1")))),
                   Only("a", Obj(Only("b", Prim("2")))),
                   Only("a", Obj(Only("a", NullValue))),
                   Only("b", Arr(<< Prim("1") >>)) }

\* mergeStore calls made through a retained context
MaxMerges == 3

-----------------------------------------------------------------------------
(* The walk, core.ts 210-223, over the live tree *)

\* walkDownDOM(Last(path)) has returned: the caller's while loop moves to the next
\* sibling of that element (line 221) or, when there is none, returns as well. The
\* empty path: the walk from the root is over.
RECURSIVE Return(_, _)
Return(path, k) ==
    IF Len(path) <= 1 THEN << >>
    ELSE LET next == NextElementSibling(k, Last(path))
         IN  IF next # NoEl
             THEN SubSeq(path, 1, Len(path) - 1) \o << next >>
             ELSE Return(SubSeq(path, 1, Len(path) - 1), k)

\* the callback on Last(path) has returned: lines 217-222
Descend(path, k) ==
    IF FirstElementChild(k, Last(path)) # NoEl
    THEN Append(path, FirstElementChild(k, Last(path)))
    ELSE Return(path, k)

-----------------------------------------------------------------------------
(* Bounds of the model *)

\* effects (document changes, mergeStore calls) made by handlers and host callbacks
MaxFx == 1

\* applyPlugins calls besides the one run() makes: nested calls from onLoad and calls
\* made later through a retained context
MaxCalls == 1

\* onLoad calls that return no teardown
MaxVoid == 1

-----------------------------------------------------------------------------
(* Activations of applyPlugins *)

NoId == -1

\* no context: the activation is not inside an onLoad call
NoCtx == [ raw |-> << >>, key |-> << >>, modifiers |-> << >>, expression |-> << >> ]

\* no attribute occurrence has thrown
NoThrown == [ el |-> NoEl, pi |-> 0, dsKey |-> << >>, value |-> << >>, expression |-> << >> ]

Top == stack[Len(stack)]

Registered(rem) == UNION { Range(rem[e]) : e \in El }

\* no attribute occurrence has two set-ups whose teardown has not run
NoDoubleSetup(liveSet) ==
    \A t, u \in liveSet : (t.el = u.el /\ t.pi = u.pi /\ t.name = u.name) => t = u

\* A new activation for applyPlugins(rootElement): line 86, and the forEach of line 88
\* at its first plugin with walkDownDOM(rootElement) just entered. The members after
\* dsKey record what the activation has seen, for the properties.
NewFrame(rootElement, serial) ==
    [ root |-> rootElement,
      pi |-> 0,
      path |-> << rootElement >>,
      phase |-> "visit",
      keys |-> << >>,
      dsKey |-> << >>,
      ctxStore |-> 0,
      ctx |-> NoCtx,
      appliedProcessors |-> { },
      serial |-> serial,
      pre |-> Registered(removals),
      bare |-> { e \in Walkable(kids, foreignEls, rootElement) :
                   Len(dataset[e]) = 0 /\ Len(removals[e]) > 0 },
      cleanStart |-> NoDoubleSetup(hist.live) /\ hist.live \subseteq Registered(removals),
      flushed |-> { },
      reflushed |-> { },
      lateFlush |-> { },
      ownFlushed |-> { },
      lastLoad |-> 0,
      outOfOrder |-> FALSE,
      seen |-> { },
      added |-> { },
      reprocessed |-> { },
      nested |-> FALSE,
      nestedOnSelf |-> FALSE,
      fxSeen |-> FALSE,
      moved |-> FALSE ]

\* The activation once the walk stands at newPath: the next element to visit, the next
\* plugin of the forEach when the walk is over, or phase "done" when that was the last
\* plugin (line 208).
Continue(f, newPath) ==
    IF Len(newPath) > 0
    THEN [ f EXCEPT !.path = newPath, !.phase = "visit", !.keys = << >>, !.dsKey = << >> ]
    ELSE IF f.pi + 1 < Len(plugins)
    THEN [ f EXCEPT !.pi = f.pi + 1, !.path = << f.root >>, !.phase = "visit",
                    !.keys = << >>, !.dsKey = << >>, !.seen = { } ]
    ELSE [ f EXCEPT !.phase = "done", !.path = << >>, !.keys = << >>, !.dsKey = << >> ]

\* what is recorded of an activation when it returns
Returned(f, rem, liveSet) ==
    [ valid |-> TRUE,
      depth |-> Len(stack),
      root |-> f.root,
      pre |-> f.pre,
      bare |-> f.bare,
      cleanStart |-> f.cleanStart,
      nested |-> f.nested,
      nestedOnSelf |-> f.nestedOnSelf,
      fxSeen |-> f.fxSeen,
      moved |-> f.moved,
      live |-> liveSet,
      registry |-> Registered(rem),
      entries |-> { e \in El : Len(rem[e]) > 0 } ]

NoReturn ==
    [ valid |-> FALSE, depth |-> 0, root |-> NoEl, pre |-> { }, bare |-> { }, cleanStart |-> TRUE,
      nested |-> FALSE, nestedOnSelf |-> FALSE, fxSeen |-> FALSE, moved |-> FALSE, live |-> { },
      registry |-> { },
      entries |-> { } ]

\* The stack, the position of the caller and the record of the return once the top
\* activation has become g.
Proceed(g, rem, h) ==
    IF g.phase = "done"
    THEN /\ stack' = SubSeq(stack, 1, Len(stack) - 1)
         /\ pc' = IF Len(stack) = 1 THEN "idle" ELSE pc
         /\ hist' = [ h EXCEPT !.ret = Returned(g, rem, h.live) ]
    ELSE /\ stack' = [ stack EXCEPT ![Len(stack)] = g ]
         /\ pc' = pc
         /\ hist' = h

-----------------------------------------------------------------------------
(* applyPlugins, core.ts 85-208 *)

\* line 90: the plugin indices at which the callback flushes the element
FlushesAt(pi) == pi = 0

\* cleanupElementRemovals, lines 66-74: the teardowns it calls, and the registry after
RemovalsCalled(rem, element) == Range(rem[element])

\* the teardowns are called but line 72 is missing
CleanupKeepsEntry(rem, element) == rem

\* line 72 as this.removals.clear()
CleanupAllRemovals(rem, element) == [ e \in El |-> << >> ]

CleanupElementRemovals(rem, element) == [ rem EXCEPT ![element] = << >> ]

\* lines 97-99
IdAssigned(ids, e, next) == IF ids[e] = NoId THEN [ ids EXCEPT ![e] = next ] ELSE ids

MissingIDNextAfter(ids, e, next) == IF ids[e] = NoId THEN next + 1 ELSE next

\* lines 199-204
WithRemoval(rem, e, removal) == [ rem EXCEPT ![e] = IF removal \in Range(@) THEN @ ELSE Append(@, removal) ]

\* walkDownDOM is entered on Last(path): lines 211-215, and lines 89-92 of the callback
VisitElement ==
    /\ Len(stack) > 0
    /\ Top.phase = "visit"
    /\ LET f == Top
           e == Last(f.path)
       IN  IF ~IsHTMLorSVG(e, foreignEls)
           THEN /\ Proceed(Continue(f, Return(f.path, kids)), removals, hist)
                /\ UNCHANGED removals
           ELSE LET called == IF FlushesAt(f.pi) THEN RemovalsCalled(removals, e) ELSE { }
                    g == [ f EXCEPT !.phase = "attrs",
                                    !.keys = Names(dataset[e]),
                                    !.seen = @ \cup { e },
                                    !.flushed = IF FlushesAt(f.pi) THEN @ \cup { e } ELSE @,
                                    !.reflushed = IF FlushesAt(f.pi) THEN @ \cup ({ e } \cap f.flushed) ELSE @,
                                    !.lateFlush = IF FlushesAt(f.pi) /\ f.pi # 0 THEN @ \cup { e } ELSE @,
                                    !.ownFlushed = @ \cup { t \in called : t.call = f.serial } ]
                IN  /\ removals' = IF FlushesAt(f.pi) THEN CleanupElementRemovals(removals, e) ELSE removals
                    /\ stack' = [ stack EXCEPT ![Len(stack)] = g ]
                    /\ hist' = [ hist EXCEPT !.live = @ \ called,
                                             !.twice = @ \cup (called \ hist.live),
                                             !.walked = TRUE ]
                    /\ pc' = pc
    /\ UNCHANGED << ctorVars, docVars, missingIDNext, store, gi >>

\* the attributes of the element that the return of line 194 leaves unexamined although
\* the loop, had it gone on, would have passed them to onLoad
LeftOut(f, e, rest) ==
    LET p == plugins[f.pi + 1]
        present == { n \in Range(rest) : HasAttr(dataset[e], n) }
        outcome(n) == Examine(p, TagName(e, foreignEls), n, AttrValue(dataset[e], n), f.appliedProcessors).outcome
    IN  IF \E n \in present : outcome(n) = "throw" THEN { }
        ELSE { [ el |-> e, pi |-> f.pi, name |-> n,
                 added |-> \E a \in f.added : a.el = e /\ a.name = n /\ a.pi < f.pi ] :
               n \in { m \in present : outcome(m) = "load" } }

\* one turn of the for-in loop of line 92, up to the call of onLoad (line 198); with no
\* key left the callback returns and the walk goes on (lines 217-222)
NextAttribute ==
    /\ Len(stack) > 0
    /\ Top.phase = "attrs"
    /\ LET f == Top
           e == Last(f.path)
           p == plugins[f.pi + 1]
       IN  IF Len(f.keys) = 0
           THEN /\ Proceed(Continue(f, Descend(f.path, kids)), removals, hist)
                /\ UNCHANGED << elId, missingIDNext >>
           ELSE LET dsKey == Head(f.keys)
                    rest == Tail(f.keys)
                    r == IF HasAttr(dataset[e], dsKey)
                         THEN Examine(p, TagName(e, foreignEls), dsKey, AttrValue(dataset[e], dsKey),
                                      f.appliedProcessors)
                         ELSE [ outcome |-> "skip" ]
                IN  IF r.outcome = "skip"
                    THEN /\ stack' = [ stack EXCEPT ![Len(stack)] = [ f EXCEPT !.keys = rest ] ]
                         /\ UNCHANGED << elId, missingIDNext, hist, pc >>
                    ELSE /\ elId' = IdAssigned(elId, e, missingIDNext)
                         /\ missingIDNext' = MissingIDNextAfter(elId, e, missingIDNext)
                         /\ IF r.outcome = "throw"
                            THEN /\ stack' = << >>
                                 /\ pc' = "idle"
                                 /\ hist' = [ hist EXCEPT !.threw = r.error, !.ret = NoReturn,
                                                          !.thrown = [ el |-> e, pi |-> f.pi, dsKey |-> dsKey,
                                                                       value |-> AttrValue(dataset[e], dsKey),
                                                                       expression |-> r.expression ] ]
                            ELSE IF r.outcome = "compileError"
                            THEN Proceed(Continue([ f EXCEPT !.appliedProcessors = r.appliedProcessors ],
                                                  Descend(f.path, kids)), removals,
                                         [ hist EXCEPT !.leftOut = @ \cup LeftOut(f, e, rest) ])
                            ELSE /\ stack' = [ stack EXCEPT ![Len(stack)] =
                                        [ f EXCEPT !.phase = "onLoad", !.keys = rest, !.dsKey = dsKey,
                                                   !.appliedProcessors = r.appliedProcessors,
                                                   !.ctxStore = store.inst,
                                                   !.ctx = [ raw |-> AttrValue(dataset[e], dsKey),
                                                             key |-> r.key,
                                                             modifiers |-> r.modifiers,
                                                             expression |-> r.expression ],
                                                   !.outOfOrder = @ \/ (f.pi + 1 < f.lastLoad),
                                                   !.reprocessed = @ \cup
                                                       { a \in f.added :
                                                           /\ a.el = e /\ a.name = dsKey /\ ~f.moved
                                                           /\ (f.pi < a.pi \/ (f.pi = a.pi /\ a.passed)) },
                                                   !.lastLoad = f.pi + 1 ] ]
                                 /\ hist' = [ hist EXCEPT !.issued = @ \cup { store.inst },
                                                          !.attrCtx = TRUE ]
                                 /\ pc' = pc
    /\ UNCHANGED << ctorVars, kids, dataset, foreignEls, removals, store, gi >>

\* onLoad returns (line 198), with a teardown or without, and lines 199-204
OnLoadReturn ==
    /\ Len(stack) > 0
    /\ Top.phase = "onLoad"
    /\ \E returnsRemoval \in BOOLEAN :
        LET f == Top
            e == Last(f.path)
            removal == [ el |-> e, pi |-> f.pi, name |-> f.dsKey, call |-> f.serial,
                         n |-> 1 + Cardinality({ t \in hist.made :
                                   t.el = e /\ t.pi = f.pi /\ t.name = f.dsKey }) ]
        IN  /\ returnsRemoval \/ hist.void < MaxVoid
            /\ removals' = IF returnsRemoval THEN WithRemoval(removals, e, removal) ELSE removals
            /\ hist' = IF returnsRemoval
                       THEN [ hist EXCEPT !.made = @ \cup { removal }, !.live = @ \cup { removal } ]
                       ELSE [ hist EXCEPT !.void = @ + 1 ]
            /\ stack' = [ stack EXCEPT ![Len(stack)] = [ f EXCEPT !.phase = "attrs", !.dsKey = << >>, !.ctx = NoCtx ] ]
    /\ UNCHANGED << ctorVars, docVars, missingIDNext, store, pc, gi >>

\* the exception of onLoad is caught around line 198 and the for-in loop goes on
OnLoadThrowCaught(stk) ==
    [ stk EXCEPT ![Len(stk)] = [ @ EXCEPT !.phase = "attrs", !.dsKey = << >>, !.ctx = NoCtx ] ]

\* line 198 stands in no try block, and neither do the callback of line 89, the forEach
\* of line 88, walkDownDOM or run(): the exception unwinds every activation
AfterOnLoadThrow(stk) == << >>

\* onLoad throws (line 198)
OnLoadThrows ==
    /\ Len(stack) > 0
    /\ Top.phase = "onLoad"
    /\ stack' = AfterOnLoadThrow(stack)
    /\ pc' = IF Len(stack') = 0 THEN "idle" ELSE pc
    /\ hist' = [ hist EXCEPT !.threw = "onLoad", !.ret = NoReturn,
                             !.thrower = [ el |-> Last(Top.path), pi |-> Top.pi, dsKey |-> Top.dsKey,
                                           depth |-> Len(stack),
                                           rest |-> { n \in Range(Top.keys) : HasAttr(dataset[Last(Top.path)], n) } ] ]
    /\ UNCHANGED << ctorVars, docVars, missingIDNext, removals, store, gi >>

-----------------------------------------------------------------------------
(* What handlers do: an onLoad in progress, an onGlobalInit in progress, or a callback *)
(* a handler left behind (an event listener, an effect) running after run()           *)

InOnLoad == Len(stack) > 0 /\ Top.phase = "onLoad"

HandlerRuns == InOnLoad \/ (Len(stack) = 0 /\ pc \in { "ginitHandler", "idle" })

NT == << "t" >>
NTK == << "t", "K" >>
NOn == << "o", "n", "C" >>
NOnBare == << "o", "n" >>
NX == << "x" >>

VOk == << "v" >>
VSig == << "$", "v" >>
VBad == << "(" >>
VEmpty == << >>

SetNames == { NT, NOn }
SetValues == { VOk, VBad }

\* the activations after a handler changed the document: each one in progress has seen
\* an effect; `touched` are the elements whose attributes changed, `isMove` a change of
\* the tree, `add` the attributes the handler of the innermost activation added
Affected(stk, touched, isMove, add) ==
    [ i \in 1..Len(stk) |->
        [ stk[i] EXCEPT !.fxSeen = TRUE,
                        !.moved = @ \/ isMove,
                        !.bare = IF isMove THEN { } ELSE @ \ touched,
                        !.added = IF i = Len(stk) THEN @ \cup add ELSE @ ] ]

\* el.dataset[name] = value / el.setAttribute
HandlerSetsAttribute ==
    /\ HandlerRuns
    /\ hist.fx < MaxFx
    /\ \E e \in El, name \in SetNames, value \in SetValues :
        /\ dataset[e] # WithAttr(dataset[e], name, value)
        /\ dataset' = [ dataset EXCEPT ![e] = WithAttr(@, name, value) ]
        /\ stack' = Affected(stack, { e }, FALSE,
                             IF InOnLoad /\ ~HasAttr(dataset[e], name)
                             THEN { [ el |-> e, name |-> name, pi |-> Top.pi, passed |-> e \in Top.seen ] }
                             ELSE { })
    /\ hist' = [ hist EXCEPT !.fx = @ + 1 ]
    /\ UNCHANGED << ctorVars, kids, foreignEls, elId, missingIDNext, removals, store, pc, gi >>

\* delete el.dataset[name] / el.removeAttribute
HandlerRemovesAttribute ==
    /\ HandlerRuns
    /\ hist.fx < MaxFx
    /\ \E e \in El :
        \E name \in Range(Names(dataset[e])) :
            /\ dataset' = [ dataset EXCEPT ![e] = WithoutAttr(@, name) ]
            /\ stack' = Affected(stack, { e }, FALSE, { })
    /\ hist' = [ hist EXCEPT !.fx = @ + 1 ]
    /\ UNCHANGED << ctorVars, kids, foreignEls, elId, missingIDNext, removals, store, pc, gi >>

\* parent.insertBefore(e, ...) / parent.append(e): attaches a detached element or moves
\* an attached one
HandlerMovesElement ==
    /\ HandlerRuns
    /\ hist.fx < MaxFx
    /\ \E e \in El \ { Body }, q \in El :
        /\ q \notin Subtree(kids, e)
        /\ \E i \in 1..(Len(Detached(kids, e)[q]) + 1) :
            /\ Inserted(kids, e, q, i) # kids
            /\ kids' = Inserted(kids, e, q, i)
    /\ stack' = Affected(stack, { }, TRUE, { })
    /\ hist' = [ hist EXCEPT !.fx = @ + 1 ]
    /\ UNCHANGED << ctorVars, dataset, foreignEls, elId, missingIDNext, removals, store, pc, gi >>

\* e.remove()
HandlerDetachesElement ==
    /\ HandlerRuns
    /\ hist.fx < MaxFx
    /\ \E e \in El \ { Body } :
        /\ Parent(kids, e) # NoEl
        /\ kids' = Detached(kids, e)
    /\ stack' = Affected(stack, { }, TRUE, { })
    /\ hist' = [ hist EXCEPT !.fx = @ + 1 ]
    /\ UNCHANGED << ctorVars, dataset, foreignEls, elId, missingIDNext, removals, store, pc, gi >>

\* ctx.mergeStore(patch): mergeStore, lines 76-79
MergeStore ==
    /\ HandlerRuns
    /\ hist.issued # { }
    /\ hist.fx < MaxFx
    /\ \E patch \in Patches :
        /\ store' = MergedStore(store, patch)
        /\ hist' = [ hist EXCEPT !.fx = @ + 1, !.patches = Append(@, patch) ]
    /\ UNCHANGED << ctorVars, docVars, missingIDNext, removals, pc, gi, stack >>

\* mergeStore called later by code that kept the context of onGlobalInit or onLoad
RetainedMergeStore ==
    /\ Len(stack) = 0
    /\ pc = "idle"
    /\ hist.issued # { }
    /\ Len(hist.patches) < MaxMerges
    /\ \E patch \in StorePatches :
        /\ store' = MergedStore(store, patch)
        /\ hist' = [ hist EXCEPT !.patches = Append(@, patch) ]
    /\ UNCHANGED << ctorVars, docVars, missingIDNext, removals, pc, gi, stack >>

\* ctx.applyPlugins(rootElement) (line 170): from inside an onLoad, nested in the
\* activation that called the handler, or later from a callback that kept its context
ContextAppliesPlugins ==
    /\ InOnLoad \/ (Len(stack) = 0 /\ pc = "idle" /\ hist.attrCtx)
    /\ hist.calls < MaxCalls
    /\ \E rootElement \in El :
        stack' = Append([ i \in 1..Len(stack) |->
                            [ stack[i] EXCEPT !.nested = TRUE,
                                              !.nestedOnSelf = @ \/ (Last(stack[i].path) \in
                                                  Walkable(kids, foreignEls, rootElement)) ] ],
                        NewFrame(rootElement, hist.serial + 1))
    /\ pc' = "apply"
    /\ hist' = [ hist EXCEPT !.calls = @ + 1, !.serial = @ + 1, !.threw = "none",
                             !.thrown = NoThrown ]
    /\ UNCHANGED << ctorVars, docVars, missingIDNext, removals, store, gi >>

-----------------------------------------------------------------------------
(* run(), core.ts 51-64 *)

\* lines 53-60: the plugin at gi defines onGlobalInit and is called with a context
GlobalInitCall ==
    /\ pc = "ginit"
    /\ gi < Len(plugins)
    /\ plugins[gi + 1].onGlobalInit
    /\ pc' = "ginitHandler"
    /\ hist' = [ hist EXCEPT !.ginitLog = Append(@, gi), !.issued = @ \cup { store.inst },
                             !.ginitBeforeWalk = @ /\ ~hist.walked ]
    /\ UNCHANGED << ctorVars, docVars, missingIDNext, removals, store, gi, stack >>

GlobalInitReturn ==
    /\ pc = "ginitHandler"
    /\ pc' = "ginit"
    /\ gi' = gi + 1
    /\ UNCHANGED << ctorVars, docVars, missingIDNext, removals, store, stack, hist >>

\* line 53: the plugin at gi defines no onGlobalInit
GlobalInitSkip ==
    /\ pc = "ginit"
    /\ gi < Len(plugins)
    /\ ~plugins[gi + 1].onGlobalInit
    /\ gi' = gi + 1
    /\ UNCHANGED << ctorVars, docVars, missingIDNext, removals, store, pc, stack, hist >>

\* applyPlugins is called as soon as one plugin was looked at
GlobalInitsDoneEarly(g) == g >= 1

\* lines 52-62: the forEach has gone through every plugin
GlobalInitsDone(g) == g = Len(plugins)

\* line 63
RunAppliesPlugins ==
    /\ pc = "ginit"
    /\ GlobalInitsDone(gi)
    /\ stack' = << NewFrame(Body, hist.serial + 1) >>
    /\ pc' = "apply"
    /\ hist' = [ hist EXCEPT !.serial = @ + 1 ]
    /\ UNCHANGED << ctorVars, docVars, missingIDNext, removals, store, gi >>

-----------------------------------------------------------------------------
(* The plugins and documents the dispatcher is run on *)

\* a preprocessor of plugin t whose rewrite holds its own pattern and the pattern of
\* the core-wide one
SigilBack == Preprocessor("s", << "$", "s" >>, TRUE)

PluginT ==
    [ Plugin(<< "t" >>, NoPrefixes) EXCEPT !.onGlobalInit = TRUE, !.mustNotEmptyExpression = TRUE,
                                           !.preprocessors = << SigilBack, CorePreprocessors[1] >> ]

PluginOn == [ Plugin(<< "o", "n" >>, { << "t" >> }) EXCEPT !.mustNotEmptyKey = TRUE ]

PluginR == [ Plugin(<< "r" >>, NoPrefixes) EXCEPT !.onGlobalInit = TRUE, !.mustHaveEmptyKey = TRUE ]

Attr(name, value) == [ name |-> name, value |-> value ]

Flat == [ e \in El |-> IF e = Body THEN << 2, 3 >> ELSE << >> ]
Chain == [ e \in El |-> IF e = Body THEN << 2 >> ELSE IF e = 2 THEN << 3 >> ELSE << >> ]
Apart == [ e \in El |-> IF e = Body THEN << 2 >> ELSE << >> ]

NOnK == << "o", "n", "K" >>

Scenarios ==
    { [ core |-> << PluginT >>, user |-> << PluginOn >>, foreign |-> { }, kids |-> Flat,
        dataset |-> << << >>, << Attr(NT, VOk), Attr(NOn, VOk) >>, << Attr(NT, VOk), Attr(NOn, VOk) >> >> ],
      [ core |-> << PluginT >>, user |-> << PluginOn >>, foreign |-> { }, kids |-> Chain,
        dataset |-> << << Attr(NT, VSig) >>, << Attr(NOn, VOk) >>, << Attr(NT, VSig) >> >> ],
      [ core |-> << PluginT >>, user |-> << PluginOn >>, foreign |-> { }, kids |-> Apart,
        dataset |-> << << Attr(NT, VOk), Attr(NOnK, VBad) >>,
                       << Attr(NT, VBad), Attr(NTK, VOk), Attr(NOn, VOk) >>,
                       << Attr(NT, VOk) >> >> ],
      [ core |-> << PluginT >>, user |-> << PluginOn >>, foreign |-> { 3 }, kids |-> Flat,
        dataset |-> << << Attr(NX, VOk) >>, << Attr(NOn, VSig), Attr(NOnBare, VOk) >>,
                       << Attr(NT, VOk) >> >> ],
      [ core |-> << PluginT, PluginOn >>, user |-> << PluginR >>, foreign |-> { }, kids |-> Apart,
        dataset |-> << << Attr(NT, VOk) >>, << Attr(NOn, VOk), Attr(<< "r" >>, VOk) >>, << >> >> ] }

NoHistory ==
    [ made |-> { }, live |-> { }, twice |-> { }, issued |-> { }, attrCtx |-> FALSE,
      ginitLog |-> << >>, ginitBeforeWalk |-> TRUE, walked |-> FALSE,
      fx |-> 0, calls |-> 0, void |-> 0, reentries |-> 0, serial |-> 0, threw |-> "none", thrown |-> NoThrown,
      patches |-> << >>,
      thrower |-> [ el |-> NoEl, pi |-> 0, dsKey |-> << >>, depth |-> 0, rest |-> { } ],
      leftOut |-> { }, ret |-> NoReturn ]

\* A Datastar instance fresh from its constructor (lines 18-29 and 31-49), run() about
\* to start, on one of the documents
Init ==
    \E sc \in Scenarios :
        /\ ~Constructor(sc.core, sc.user).threw
        /\ ctorArgs = [ core |-> sc.core, user |-> sc.user ]
        /\ ctorPc = "done"
        /\ ctorList = CombinedPlugins(sc.core, sc.user)
        /\ ctorPos = Len(ctorList) + 1
        /\ allPluginPrefixes = { q.prefix : q \in Range(ctorList) }
        /\ plugins = Constructor(sc.core, sc.user).plugins
        /\ kids = sc.kids
        /\ dataset = sc.dataset
        /\ foreignEls = sc.foreign
        /\ elId = [ e \in El |-> NoId ]
        /\ missingIDNext = 0
        /\ removals = [ e \in El |-> << >> ]
        /\ store = [ inst |-> 0, value |-> EmptyStore ]
        /\ pc = "ginit"
        /\ gi = 0
        /\ stack = << >>
        /\ hist = NoHistory

Next ==
    \/ GlobalInitCall
    \/ GlobalInitReturn
    \/ GlobalInitSkip
    \/ RunAppliesPlugins
    \/ VisitElement
    \/ NextAttribute
    \/ OnLoadReturn
    \/ HandlerSetsAttribute
    \/ HandlerRemovesAttribute
    \/ HandlerMovesElement
    \/ HandlerDetachesElement
    \/ MergeStore
    \/ ContextAppliesPlugins
    \/ OnLoadThrows

Spec == Init /\ [][Next]_vars

\* The constructor called with any built-in and user plugin lists
InitCtor ==
    /\ \E list \in SeqsUpTo(CtorPlugins, MaxCtorLen) :
        \E k \in 0..Len(list) :
            ctorArgs = [ core |-> SubSeq(list, 1, k), user |-> SubSeq(list, k + 1, Len(list)) ]
    /\ ctorPc = "start"
    /\ ctorList = << >>
    /\ ctorPos = 0
    /\ allPluginPrefixes = { }
    /\ plugins = << >>
    /\ kids = [ e \in El |-> << >> ]
    /\ dataset = [ e \in El |-> << >> ]
    /\ foreignEls = { }
    /\ elId = [ e \in El |-> NoId ]
    /\ missingIDNext = 0
    /\ removals = [ e \in El |-> << >> ]
    /\ store = [ inst |-> 0, value |-> EmptyStore ]
    /\ pc = "new"
    /\ gi = 0
    /\ stack = << >>
    /\ hist = NoHistory

NextCtor ==
    \/ CtorStart
    \/ CtorStep

SpecCtor == InitCtor /\ [][NextCtor]_vars

-----------------------------------------------------------------------------
(* applyPlugins(document.body) on a one-element document, for one plugin with any    *)
(* combination of the rules of lines 103-149 and any attribute                       *)

\* allowedTagRegexps: absent, one pattern that does not match <body>, two patterns of
\* which the second matches
AttrTagRules == { [ has |-> FALSE, set |-> { } ],
                  [ has |-> TRUE, set |-> { TagDiv } ],
                  [ has |-> TRUE, set |-> { TagDiv, << "o", "d" >> } ] }

\* allowedModifiers: absent, or the label m only
AttrModifierRules == { [ has |-> FALSE, set |-> { } ], [ has |-> TRUE, set |-> { << "m" >> } ] }

AttrPlugins ==
    { [ Plugin(<< "t" >>, NoPrefixes) EXCEPT !.mustHaveEmptyKey = hk, !.mustNotEmptyKey = nk,
                                             !.mustHaveEmptyExpression = he,
                                             !.mustNotEmptyExpression = ne,
                                             !.hasAllowedTagRegexps = tr.has,
                                             !.allowedTagRegexps = tr.set,
                                             !.hasAllowedModifiers = mr.has,
                                             !.allowedModifiers = mr.set ] :
        hk \in BOOLEAN, nk \in BOOLEAN, he \in BOOLEAN, ne \in BOOLEAN,
        tr \in AttrTagRules, mr \in AttrModifierRules }

\* dataset keys: data-t, data-t-k, data-t-k-t, data-t.m, data-t-k.m_a.n, data-t-k.n.n_a,
\* data-xt, data-x
AttrNames ==
    { NT, NTK, << "t", "K", "T" >>, << "t", ".", "m" >>,
      << "t", "K", ".", "m", "_", "a", ".", "n" >>,
      << "t", "K", ".", "n", ".", "n", "_", "a" >>,
      << "x", "t" >>, NX }

AttrValues == { VEmpty, VOk, VSig, VBad }

\* the data-* entries of <body>: any single attribute, or one of a few pairs
AttrDatasets ==
    { << Attr(n, v) >> : n \in AttrNames, v \in AttrValues }
        \cup { << Attr(NTK, VSig), Attr(<< "t", ".", "m" >>, VEmpty) >>,
               << Attr(NX, VOk), Attr(NTK, VSig) >>,
               << Attr(NTK, VOk), Attr(NT, VOk) >> }

InitAttr ==
    \E p \in AttrPlugins, ds \in AttrDatasets :
        /\ ctorArgs = [ core |-> << p >>, user |-> << >> ]
        /\ ctorPc = "done"
        /\ ctorList = << p >>
        /\ ctorPos = 2
        /\ allPluginPrefixes = { p.prefix }
        /\ plugins = << p >>
        /\ kids = [ e \in El |-> << >> ]
        /\ dataset = [ e \in El |-> IF e = Body THEN ds ELSE << >> ]
        /\ foreignEls = { }
        /\ elId = [ e \in El |-> NoId ]
        /\ missingIDNext = 0
        /\ removals = [ e \in El |-> << >> ]
        /\ store = [ inst |-> 0, value |-> EmptyStore ]
        /\ pc = "apply"
        /\ gi = 1
        /\ hist = [ NoHistory EXCEPT !.serial = 1 ]
        /\ stack = << NewFrame(Body, 1) >>

NextAttr ==
    \/ VisitElement
    \/ NextAttribute
    \/ OnLoadReturn
    \/ OnLoadThrows

SpecAttr == InitAttr /\ [][NextAttr]_vars

-----------------------------------------------------------------------------
(* mergeStore called any number of times on an instance whose run() is over *)

InitStore ==
    /\ ctorArgs = [ core |-> << PluginT >>, user |-> << >> ]
    /\ ctorPc = "done"
    /\ ctorList = << PluginT >>
    /\ ctorPos = 2
    /\ allPluginPrefixes = { PluginT.prefix }
    /\ plugins = << PluginT >>
    /\ kids = [ e \in El |-> << >> ]
    /\ dataset = [ e \in El |-> << >> ]
    /\ foreignEls = { }
    /\ elId = [ e \in El |-> NoId ]
    /\ missingIDNext = 0
    /\ removals = [ e \in El |-> << >> ]
    /\ store = [ inst |-> 0, value |-> EmptyStore ]
    /\ pc = "idle"
    /\ gi = 1
    /\ stack = << >>
    /\ hist = [ NoHistory EXCEPT !.ginitLog = << 0 >>, !.issued = { 0 }, !.walked = TRUE, !.serial = 1 ]

NextStore == RetainedMergeStore

SpecStore == InitStore /\ [][NextStore]_vars

-----------------------------------------------------------------------------
(* applyPlugins(document.body) on documents of every shape that no handler changes    *)

WalkTrees ==
    { Flat, Chain, Apart,
      [ e \in El |-> IF e = Body THEN << 3, 2 >> ELSE << >> ],
      [ e \in El |-> IF e = Body THEN << 3 >> ELSE IF e = 3 THEN << 2 >> ELSE << >> ] }

WalkDatasets == { << >>, << Attr(NT, VOk) >> }

InitWalk ==
    /\ ctorArgs = [ core |-> << PluginT >>, user |-> << PluginOn >> ]
    /\ ctorPc = "done"
    /\ ctorList = << PluginT, PluginOn >>
    /\ ctorPos = 3
    /\ allPluginPrefixes = { PluginT.prefix, PluginOn.prefix }
    /\ plugins = << PluginT, PluginOn >>
    /\ kids \in WalkTrees
    /\ dataset \in [ El -> WalkDatasets ]
    /\ foreignEls \in SUBSET (El \ { Body })
    /\ elId = [ e \in El |-> NoId ]
    /\ missingIDNext = 0
    /\ removals = [ e \in El |-> << >> ]
    /\ store = [ inst |-> 0, value |-> EmptyStore ]
    /\ pc = "apply"
    /\ gi = 2
    /\ hist = [ NoHistory EXCEPT !.ginitLog = << 0 >>, !.issued = { 0 }, !.serial = 1 ]
    /\ stack = << NewFrame(Body, 1) >>

NextWalk ==
    \/ VisitElement
    \/ NextAttribute
    \/ OnLoadReturn

SpecWalk == InitWalk /\ [][NextWalk]_vars

-----------------------------------------------------------------------------
(* cleanupElementRemovals step by step, core.ts 66-74: its teardowns are calls into   *)
(* plugin code, which holds a context and can call back into cleanupElementRemovals   *)
(* and applyPlugins while the loop of line 69 is under way                            *)

\* calls made from outside any handler, and calls made from inside a teardown or onLoad
MaxFlushCalls == 2
MaxReentries == 1

\* An activation of cleanupElementRemovals(element): idx teardowns of removalSet have
\* been called. removalSet is the Set the Map held at line 67; once an activation has
\* deleted the entry (line 72) the Set is out of the Map's reach and keeps the members
\* `fns` for the activations still iterating it.
CleanupFrame(element) == [ phase |-> "cleanup", el |-> element, idx |-> 0, detached |-> FALSE, fns |-> << >> ]

\* a teardown being executed (line 70)
RemovalFrame(removal) == [ phase |-> "removal", fn |-> removal ]

RemovalSet(f) == IF f.detached THEN f.fns ELSE removals[f.el]

\* the activations iterating element's Set keep it when line 72 takes it out of the Map
Detach(stk, element) ==
    [ i \in 1..Len(stk) |->
        IF stk[i].phase = "cleanup" /\ stk[i].el = element /\ ~stk[i].detached
        THEN [ stk[i] EXCEPT !.detached = TRUE, !.fns = removals[element] ]
        ELSE stk[i] ]

\* cleanupElementRemovals returns: the callback of line 89 goes on to the loop of line 92
Resumed(stk) ==
    IF Len(stk) > 0 /\ stk[Len(stk)].phase = "flush"
    THEN [ stk EXCEPT ![Len(stk)] = [ @ EXCEPT !.phase = "attrs",
                                               !.keys = Names(dataset[Last(stk[Len(stk)].path)]) ] ]
    ELSE stk

Popped == SubSeq(stack, 1, Len(stack) - 1)

\* walkDownDOM is entered on Last(path): lines 211-215, and line 90 as a call
FlushVisit ==
    /\ Len(stack) > 0
    /\ Top.phase = "visit"
    /\ LET f == Top
           e == Last(f.path)
       IN  IF ~IsHTMLorSVG(e, foreignEls)
           THEN Proceed(Continue(f, Return(f.path, kids)), removals, hist)
           ELSE /\ stack' = IF FlushesAt(f.pi)
                            THEN Append([ stack EXCEPT ![Len(stack)] = [ f EXCEPT !.phase = "flush", !.seen = @ \cup { e } ] ],
                                        CleanupFrame(e))
                            ELSE [ stack EXCEPT ![Len(stack)] =
                                     [ f EXCEPT !.phase = "attrs", !.keys = Names(dataset[e]), !.seen = @ \cup { e } ] ]
                /\ hist' = [ hist EXCEPT !.walked = TRUE ]
                /\ pc' = pc
    /\ UNCHANGED << ctorVars, docVars, missingIDNext, removals, store, gi >>

\* lines 67-68: the Map has no entry for the element
CleanupFindsNothing ==
    /\ Len(stack) > 0
    /\ Top.phase = "cleanup"
    /\ Top.idx = 0
    /\ Len(removals[Top.el]) = 0
    /\ stack' = Resumed(Popped)
    /\ UNCHANGED << ctorVars, docVars, missingIDNext, removals, store, pc, gi, hist >>

\* lines 69-70: the next member of the Set is called
CleanupCallsRemoval ==
    /\ Len(stack) > 0
    /\ Top.phase = "cleanup"
    /\ Top.idx < Len(RemovalSet(Top))
    /\ LET fn == RemovalSet(Top)[Top.idx + 1]
       IN  /\ stack' = Append([ stack EXCEPT ![Len(stack)] = [ Top EXCEPT !.idx = @ + 1 ] ], RemovalFrame(fn))
           /\ hist' = [ hist EXCEPT !.live = @ \ { fn }, !.twice = @ \cup ({ fn } \ hist.live) ]
    /\ UNCHANGED << ctorVars, docVars, missingIDNext, removals, store, pc, gi >>

\* line 72, after the last member
CleanupDeletes ==
    /\ Len(stack) > 0
    /\ Top.phase = "cleanup"
    /\ Len(RemovalSet(Top)) > 0
    /\ Top.idx = Len(RemovalSet(Top))
    /\ removals' = CleanupElementRemovals(removals, Top.el)
    /\ stack' = Resumed(Detach(Popped, Top.el))
    /\ UNCHANGED << ctorVars, docVars, missingIDNext, store, pc, gi, hist >>

\* the teardown returns to line 69
RemovalReturns ==
    /\ Len(stack) > 0
    /\ Top.phase = "removal"
    /\ stack' = Popped
    /\ UNCHANGED << ctorVars, docVars, missingIDNext, removals, store, pc, gi, hist >>

\* ctx.cleanupElementRemovals(element) (line 171) called by a teardown or by onLoad
HandlerCleansUp ==
    /\ Len(stack) > 0
    /\ Top.phase \in { "removal", "onLoad" }
    /\ hist.reentries < MaxReentries
    /\ \E element \in El : stack' = Append(stack, CleanupFrame(element))
    /\ hist' = [ hist EXCEPT !.reentries = @ + 1 ]
    /\ UNCHANGED << ctorVars, docVars, missingIDNext, removals, store, pc, gi >>

\* ctx.applyPlugins(rootElement) (line 170) called by a teardown
RemovalAppliesPlugins ==
    /\ Len(stack) > 0
    /\ Top.phase = "removal"
    /\ hist.reentries < MaxReentries
    /\ \E rootElement \in El : stack' = Append(stack, NewFrame(rootElement, hist.serial + 1))
    /\ hist' = [ hist EXCEPT !.reentries = @ + 1, !.serial = @ + 1 ]
    /\ UNCHANGED << ctorVars, docVars, missingIDNext, removals, store, pc, gi >>

\* applyPlugins(document.body) and cleanupElementRemovals(element) called through a
\* retained context while no handler runs
RetainedApplyPlugins ==
    /\ Len(stack) = 0
    /\ hist.calls < MaxFlushCalls
    /\ stack' = << NewFrame(Body, hist.serial + 1) >>
    /\ hist' = [ hist EXCEPT !.calls = @ + 1, !.serial = @ + 1 ]
    /\ UNCHANGED << ctorVars, docVars, missingIDNext, removals, store, pc, gi >>

RetainedCleanup ==
    /\ Len(stack) = 0
    /\ hist.calls < MaxFlushCalls
    /\ \E element \in El : stack' = << CleanupFrame(element) >>
    /\ hist' = [ hist EXCEPT !.calls = @ + 1 ]
    /\ UNCHANGED << ctorVars, docVars, missingIDNext, removals, store, pc, gi >>

\* run() has reached line 63 on <body data-t="v"><div data-t="v"></div></body>
InitFlush ==
    /\ ctorArgs = [ core |-> << PluginT >>, user |-> << >> ]
    /\ ctorPc = "done"
    /\ ctorList = << PluginT >>
    /\ ctorPos = 2
    /\ allPluginPrefixes = { PluginT.prefix }
    /\ plugins = << PluginT >>
    /\ kids = Apart
    /\ dataset = << << Attr(NT, VOk) >>, << Attr(NT, VOk) >>, << >> >>
    /\ foreignEls = { }
    /\ elId = [ e \in El |-> NoId ]
    /\ missingIDNext = 0
    /\ removals = [ e \in El |-> << >> ]
    /\ store = [ inst |-> 0, value |-> EmptyStore ]
    /\ pc = "apply"
    /\ gi = 1
    /\ hist = [ NoHistory EXCEPT !.ginitLog = << 0 >>, !.issued = { 0 }, !.serial = 1 ]
    /\ stack = << NewFrame(Body, 1) >>

NextFlush ==
    \/ FlushVisit
    \/ CleanupFindsNothing
    \/ CleanupCallsRemoval
    \/ CleanupDeletes
    \/ RemovalReturns
    \/ HandlerCleansUp
    \/ RemovalAppliesPlugins
    \/ RetainedApplyPlugins
    \/ RetainedCleanup
    \/ NextAttribute
    \/ OnLoadReturn

SpecFlush == InitFlush /\ [][NextFlush]_vars

-----------------------------------------------------------------------------
(* Properties *)

Frames == { stack[i] : i \in 1..Len(stack) }

\* C1: whenever an onLoad runs on an element in an applyPlugins call, at any plugin
\* index, every teardown that was registered for that element before the call has been
\* invoked and is out of the registry.
C1_TeardownsRetiredBeforeOnLoad ==
    \A f \in Frames :
        f.phase = "onLoad" =>
            \A t \in f.pre : t.el = Last(f.path) => (t \notin hist.live /\ t \notin Registered(removals))

\* C2: when an outermost applyPlugins call returns during which an onLoad called
\* applyPlugins again (here: on a subtree without the handler's own element, with no
\* change of the document during the call), no attribute occurrence has two live
\* set-ups, and every live set-up has its teardown in the registry.
C2_NestedCallsLeaveOneSetup ==
    (/\ hist.ret.valid /\ hist.ret.depth = 1 /\ hist.ret.cleanStart
     /\ hist.ret.nested /\ ~hist.ret.nestedOnSelf /\ ~hist.ret.fxSeen)
        => (NoDoubleSetup(hist.ret.live) /\ hist.ret.live \subseteq hist.ret.registry)

\* C3: every store handle handed out in a context is the current store instance, also
\* after mergeStore.
C3_HandlesFollowTheStore == \A handle \in hist.issued : handle = store.inst

\* C4: a compile failure abandons its own attribute occurrence only: no other occurrence
\* that onLoad would have been called for is left out, and nothing is thrown.
C4_CompileFailureAbandonsOneOccurrence == hist.leftOut = { } /\ hist.threw # "compile"

\* the plugin indices whose onGlobalInit run() is to call: built-ins first, then the
\* user plugins in argument order, those that define the hook
ExpectedGlobalInits ==
    LET list == ctorArgs.core \o ctorArgs.user
    IN  SelectSeq([ i \in 1..Len(list) |-> i - 1 ], LAMBDA j : list[j + 1].onGlobalInit)

\* C5: run() calls onGlobalInit once for each plugin that defines it, in registration
\* order, and every such call has returned before the first element is visited.
C5_GlobalInitsBeforeTheWalk ==
    /\ Len(hist.ginitLog) <= Len(ExpectedGlobalInits)
    /\ hist.ginitLog = SubSeq(ExpectedGlobalInits, 1, Len(hist.ginitLog))
    /\ hist.ginitBeforeWalk
    /\ (hist.walked \/ Len(stack) > 0 \/ pc \in { "apply", "idle" }) => hist.ginitLog = ExpectedGlobalInits
    /\ pc = "ginitHandler" => (~hist.walked /\ Len(stack) = 0)

C5_Witness ==
    /\ pc = "idle"
    /\ hist.walked
    /\ Len(plugins) = 3
    /\ hist.ginitLog = << 0, 2 >>

Satisfied(list, i) ==
    \A required \in list[i].requiredPluginPrefixes : \E j \in 1..(i - 1) : list[j].prefix = required

Acceptable(list) == Len(list) > 0 /\ \A i \in 1..Len(list) : Satisfied(list, i)

\* C6: the constructor throws exactly when the combined list is empty or some plugin
\* requires a prefix that no plugin strictly earlier in the list has; an accepted list
\* is kept in list order.
C6_ConstructorChecksRequirementsByPosition ==
    LET list == ctorArgs.core \o ctorArgs.user
    IN  /\ ctorPc = "threw" => ~Acceptable(list)
        /\ ctorPc = "done" => (Acceptable(list) /\ plugins = list)
        /\ ctorPc = "loop" => (ctorPos <= Len(ctorList) /\ plugins = SubSeq(list, 1, ctorPos - 1))

\* a forward dependency: a later plugin of the list has the prefix an earlier one requires
C6_Witness ==
    /\ ctorPc = "threw"
    /\ \E i, j \in 1..Len(ctorList) :
        /\ i < j
        /\ ctorList[j].prefix \in ctorList[i].requiredPluginPrefixes
        /\ ctorList[i].prefix # ctorList[j].prefix

\* C7: the registered plugin list never holds two plugins with the same prefix.
C7_NoTwoPluginsShareAPrefix ==
    \A i, j \in 1..Len(plugins) : i # j => plugins[i].prefix # plugins[j].prefix

C9_OneFlushPerElementPerCall ==
    \A f \in Frames : f.lateFlush = { } /\ f.reflushed = { } /\ f.ownFlushed = { }

\* C10: in one applyPlugins call the onLoads run plugin by plugin in registration order;
\* an attribute added by plugin i's handler is passed to every later plugin whose
\* walk comes to it, and to no plugin j <= i whose walk had passed the element.
C10_OneWalkPerPluginInOrder ==
    /\ \A f \in Frames : ~f.outOfOrder /\ f.reprocessed = { }
    /\ \A l \in hist.leftOut : ~l.added

\* the text after the plugin's prefix, and its pieces: the key is what stands before the
\* first '.', the modifier tokens are what stands between the '.' that follow
AfterPrefix(p, dsKey) == SubSeq(dsKey, Len(p.prefix) + 1, Len(dsKey))

SeparatorsOf(text, ch) == { i \in 1..Len(text) : text[i] = ch }

\* the k-th piece (k >= 1) of text cut at every ch
PieceOf(text, ch, k) ==
    LET seps == SeparatorsOf(text, ch)
        before(i) == Cardinality({ j \in seps : j < i })
    IN  SelectSeq([ i \in 1..Len(text) |-> [ c |-> text[i], at |-> i ] ],
                  LAMBDA x : x.c # ch /\ before(x.at) = k - 1)

PieceText(text, ch, k) == LET piece == PieceOf(text, ch, k) IN [ i \in 1..Len(piece) |-> piece[i].c ]

PieceCount(text, ch) == Cardinality(SeparatorsOf(text, ch)) + 1

KeyText(p, dsKey) == PieceText(AfterPrefix(p, dsKey), ".", 1)

ModifierLabels(p, dsKey) ==
    { PieceText(PieceText(AfterPrefix(p, dsKey), ".", k), "_", 1) :
        k \in 2..PieceCount(AfterPrefix(p, dsKey), ".") }

KeyRuleViolated(p, dsKey) ==
    \/ p.mustHaveEmptyKey /\ KeyText(p, dsKey) # << >>
    \/ p.mustNotEmptyKey /\ KeyText(p, dsKey) = << >>

TagRuleViolated(p, tag) ==
    p.hasAllowedTagRegexps /\ \A r \in p.allowedTagRegexps : ~Contains(tag, r)

ModifierRuleViolated(p, dsKey) ==
    p.hasAllowedModifiers /\ \E label \in ModifierLabels(p, dsKey) : label \notin p.allowedModifiers

ExpressionRuleViolated(p, value) ==
    \/ p.mustHaveEmptyExpression /\ value # << >>
    \/ p.mustNotEmptyExpression /\ value = << >>

\* the rule an error names
RuleOfError(error) ==
    CASE error \in { "mustHaveEmptyKey", "mustNotEmptyKey" } -> "key"
      [] error = "tag" -> "tag"
      [] error = "modifier" -> "modifier"
      [] error \in { "mustHaveEmptyExpression", "mustNotEmptyExpression" } -> "expression"
      [] OTHER -> "none"

\* the earliest violated rule in the order key, tag, modifier, expression
EarliestViolatedRule(p, tag, dsKey, value) ==
    IF KeyRuleViolated(p, dsKey) THEN "key"
    ELSE IF TagRuleViolated(p, tag) THEN "tag"
    ELSE IF ModifierRuleViolated(p, dsKey) THEN "modifier"
    ELSE IF ExpressionRuleViolated(p, value) THEN "expression"
    ELSE "none"

\* C11: the error thrown for an attribute occurrence is the one of the earliest rule it
\* violates in the order key-emptiness, tag allow-list, modifier allow-list,
\* expression-emptiness.
C11_ErrorOfTheEarliestRule ==
    hist.thrown.el # NoEl =>
        RuleOfError(hist.threw) =
            EarliestViolatedRule(plugins[hist.thrown.pi + 1], TagName(hist.thrown.el, foreignEls),
                                 hist.thrown.dsKey, hist.thrown.value)

\* a validation error is thrown by the step
ThrowsValidationError == hist.thrown.el = NoEl /\ hist'.thrown.el # NoEl

\* C12: an attribute occurrence that violates a rule of its plugin never reaches onLoad;
\* the error unwinds every activation, with the expression as it was read, and the step
\* that throws it registers and invokes no teardown and hands out no context.
C12_ValidationErrorIsThrown ==
    /\ [](\A f \in Frames :
            f.phase = "onLoad" =>
                EarliestViolatedRule(plugins[f.pi + 1], TagName(Last(f.path), foreignEls),
                                     f.dsKey, f.ctx.raw) = "none")
    /\ [](hist.thrown.el # NoEl =>
            /\ Len(stack) = 0
            /\ hist.threw # "none"
            /\ hist.thrown.expression = hist.thrown.value
            /\ EarliestViolatedRule(plugins[hist.thrown.pi + 1], TagName(hist.thrown.el, foreignEls),
                                    hist.thrown.dsKey, hist.thrown.value) # "none")
    /\ [][ThrowsValidationError =>
            /\ removals' = removals
            /\ hist'.made = hist.made
            /\ hist'.live = hist.live
            /\ hist'.issued = hist.issued]_vars

\* a rule is violated by the second attribute of an element whose first attribute left
\* a teardown in the registry
C12_Witness == hist.thrown.el # NoEl /\ Len(removals[hist.thrown.el]) > 0

\* the name is the prefix followed by some text
BeginsWith(name, prefix) == \E n \in 0..Len(name) : SubSeq(name, 1, n) = prefix

\* the dataset loop of the innermost activation stands at an attribute whose name does
\* not begin with the prefix of the plugin of the walk
AtForeignAttribute ==
    /\ Len(stack) > 0
    /\ Top.phase = "attrs"
    /\ Len(Top.keys) > 0
    /\ ~BeginsWith(Head(Top.keys), plugins[Top.pi + 1].prefix)

\* C13: for an attribute whose name does not begin with the plugin's prefix the pass
\* only moves on to the next attribute: no onLoad, no error, no id, no preprocessing or
\* compilation, no change of the removal registry.
C13_NoActionWithoutThePrefix ==
    [][AtForeignAttribute =>
        /\ Len(stack') = Len(stack)
        /\ stack'[Len(stack')] = [ Top EXCEPT !.keys = Tail(Top.keys) ]
        /\ elId' = elId
        /\ missingIDNext' = missingIDNext
        /\ removals' = removals
        /\ hist' = hist
        /\ pc' = pc]_vars

\* the loop has passed an attribute without the prefix
C13_Witness ==
    /\ Len(stack) > 0
    /\ Top.phase = "attrs"
    /\ LET ds == dataset[Last(Top.path)]
       IN  /\ Len(Top.keys) < Len(ds)
           /\ ~BeginsWith(ds[Len(ds) - Len(Top.keys)].name, plugins[Top.pi + 1].prefix)
           /\ Contains(ds[Len(ds) - Len(Top.keys)].name, plugins[Top.pi + 1].prefix)

\* the members of an object value, none for any other value
MembersOf(x) == IF x.t = "obj" THEN x.m ELSE [ k \in { } |-> NullValue ]

\* after is before with update merged into it, for objects whose members hold objects
\* of primitives at most: a key of the update set to null is gone, a key set to an object
\* holds the members of before's object at that key with those of the update's laid
\* over them (null ones removed), a key set to anything else holds the update's value,
\* and every other key is as before
IsMergeOf(after, before, update) ==
    /\ DOMAIN after = ((DOMAIN before) \cup (DOMAIN update)) \ { k \in DOMAIN update : update[k].t = "null" }
    /\ \A k \in DOMAIN after :
        IF k \notin DOMAIN update THEN after[k] = before[k]
        ELSE IF update[k].t # "obj" THEN after[k] = update[k]
        ELSE LET old == IF k \in DOMAIN before THEN MembersOf(before[k]) ELSE MembersOf(NullValue)
                 new == update[k].m
             IN  /\ after[k].t = "obj"
                 /\ DOMAIN after[k].m = ((DOMAIN old) \cup (DOMAIN new)) \ { j \in DOMAIN new : new[j].t = "null" }
                 /\ \A j \in DOMAIN after[k].m : after[k].m[j] = IF j \in DOMAIN new THEN new[j] ELSE old[j]

\* C14: every mergeStore call leaves the store holding the recursive merge of its
\* update into the value the store held before the call, so the store is the fold of
\* the updates in call order; {a: 1} then {b: 2} gives {a: 1, b: 2}.
C14_MergeStoreIsAdditive ==
    /\ [][hist'.patches # hist.patches =>
            /\ hist'.patches = Append(hist.patches, Last(hist'.patches))
            /\ IsMergeOf(store'.value, store.value, Last(hist'.patches))]_vars
    /\ [](hist.patches = << >> => store.value = EmptyStore)
    /\ [](hist.patches = << Only("a", Prim("1")), Only("b", Prim("2")) >> =>
            store.value = [ k \in { "a", "b" } |-> IF k = "a" THEN Prim("1") ELSE Prim("2") ])

\* a nested object was merged key by key into one set by an earlier call
C14_Witness ==
    /\ Len(hist.patches) = 3
    /\ store.value = [ k \in { "a", "b" } |->
                         IF k = "a" THEN Obj([ j \in { "a", "b" } |-> IF j = "a" THEN Prim("1") ELSE Prim("2") ])
                         ELSE Prim("2") ]

InCleanup == Len(stack) > 0 /\ Top.phase = "cleanup"

\* C15: a flush of an element whose entry is gone returns at once and changes nothing;
\* a flush that returns leaves the element without an entry, so that the next flush
\* of it, with no registration in between, is of that kind; and the steps of a flush
\* call teardowns of its element only and leave the entries of the others alone.
C15_SecondFlushIsANoOp ==
    /\ [][(InCleanup /\ Top.idx = 0 /\ Len(removals[Top.el]) = 0) =>
            /\ Len(stack') = Len(stack) - 1
            /\ removals' = removals
            /\ hist' = hist]_vars
    /\ [][(InCleanup /\ Len(stack') < Len(stack)) => Len(removals'[Top.el]) = 0]_vars
    /\ [][InCleanup =>
            /\ \A e \in El \ { Top.el } : removals'[e] = removals[e]
            /\ Len(stack') > Len(stack) => stack'[Len(stack')].fn.el = Top.el]_vars

\* cleanupElementRemovals(element) is called outside any handler a second time, the
\* teardowns of the element having been called and no registration made since
C15_Witness ==
    /\ Len(stack) = 1
    /\ InCleanup
    /\ Top.idx = 0
    /\ Len(removals[Top.el]) = 0
    /\ hist.reentries = 0
    /\ \E t \in hist.made : t.el = Top.el /\ t \notin hist.live

\* C19: no teardown is called a second time for one registration, and once no call is
\* in progress every registered teardown that was not called is still in the registry.
C19_TeardownsCalledOnceNeverDropped ==
    /\ hist.twice = { }
    /\ Len(stack) = 0 => hist.live \subseteq Registered(removals)

OnLoadThrew == InOnLoad /\ hist.threw # "onLoad" /\ hist'.threw = "onLoad"

\* C16: when onLoad throws, no activation of applyPlugins is left to go on with the
\* pass, nothing is registered for the occurrence (the registry and the set of
\* teardowns ever made are as before the throw), and as long as the exception is the
\* last thing that happened no attribute, element or plugin is being processed.
C16_OnLoadExceptionPropagates ==
    /\ [][OnLoadThrew =>
            /\ Len(stack') = 0
            /\ removals' = removals
            /\ hist'.made = hist.made
            /\ hist'.live = hist.live
            /\ elId' = elId]_vars
    /\ [](hist.threw = "onLoad" => Len(stack) = 0)

\* onLoad threw inside a nested applyPlugins call, with attributes of its plugin left
\* on the element
C16_Witness ==
    /\ hist.threw = "onLoad"
    /\ hist.thrower.depth > 1
    /\ \E n \in hist.thrower.rest : StartsWith(n, plugins[hist.thrower.pi + 1].prefix)

\* the members of a list in the order of their first appearance
FirstAppearances(list) ==
    SelectSeq([ i \in 1..Len(list) |-> [ at |-> i, item |-> list[i] ] ],
              LAMBDA x : \A j \in 1..(x.at - 1) : list[j] # x.item)

\* every member of a list of rewrites applied once, in list order
RECURSIVE RewrittenOnceBy(_, _)
RewrittenOnceBy(expression, rewrites) ==
    IF Len(rewrites) = 0 THEN expression
    ELSE LET processor == Head(rewrites).item
         IN  RewrittenOnceBy(IF processor.hasGroups
                             THEN ReplaceMatches(expression, processor, MatchCount(expression, processor.pat))
                             ELSE expression,
                             Tail(rewrites))

\* the expression an occurrence hands to onLoad when nothing was applied to it before
ExpressionFor(p, raw) == RewrittenOnceBy(raw, FirstAppearances(CorePreprocessors \o p.preprocessors))

\* C17: the expression onLoad receives is the attribute's value rewritten by the
\* core-wide preprocessors and then the plugin's own, in list order, each distinct
\* one once, whatever was applied to earlier occurrences of the same call or of a call
\* nested in it.
C17_EachPreprocessorOncePerOccurrence ==
    \A f \in Frames : f.phase = "onLoad" => f.ctx.expression = ExpressionFor(plugins[f.pi + 1], f.ctx.raw)

\* an occurrence of the outer pass is preprocessed after a nested call has returned, by
\* a plugin that lists the core-wide preprocessor again and whose own rewrite brings
\* the core-wide pattern back
C17_Witness ==
    /\ Len(stack) = 1
    /\ Top.phase = "onLoad"
    /\ Top.nested
    /\ Top.ctx.raw = VSig
    /\ Top.ctx.expression = << "$", "s", "v" >>
    /\ Top.appliedProcessors # { }

\* the elements below and including e, parents before children and children from left
\* to right, without the elements that are neither HTML nor SVG and what is below them
RECURSIVE PreOrder(_, _, _)
RECURSIVE PreOrderOfAll(_, _, _)
PreOrder(k, foreign, e) ==
    IF e \in foreign THEN << >> ELSE << e >> \o PreOrderOfAll(k, foreign, k[e])

PreOrderOfAll(k, foreign, list) ==
    IF Len(list) = 0 THEN << >>
    ELSE PreOrder(k, foreign, Head(list)) \o PreOrderOfAll(k, foreign, Tail(list))

\* the callback of the walk is called on the element the walk stands at
CallbackRuns ==
    /\ Len(stack) > 0
    /\ Top.phase = "visit"
    /\ Len(stack') = Len(stack)
    /\ stack'[Len(stack)].phase = "attrs"

\* the walk of one plugin is over
WalkEnds ==
    /\ Len(stack) > 0
    /\ Top.phase \in { "visit", "attrs" }
    /\ \/ Len(stack') < Len(stack)
       \/ stack'[Len(stack)].pi # Top.pi

ArgumentsOf(token) == [ j \in 1..(PieceCount(token, "_") - 1) |-> PieceText(token, "_", j + 1) ]

\* C20: the key onLoad receives is the text between the prefix and the first '.' with
\* its first character in lower case and every other character as in the name, and the
\* modifiers it receives have exactly the labels of the tokens between the '.' that
\* follow, each mapped to the arguments of a token of that label.
C20_NameIsSplitIntoKeyAndModifiers ==
    \A f \in Frames :
        f.phase = "onLoad" =>
            LET p == plugins[f.pi + 1]
                text == AfterPrefix(p, f.dsKey)
                rawKey == KeyText(p, f.dsKey)
            IN  /\ Len(f.ctx.key) = Len(rawKey)
                /\ \A i \in 1..Len(rawKey) :
                       f.ctx.key[i] = IF i = 1 THEN LowerCaseChar(rawKey[i]) ELSE rawKey[i]
                /\ DOMAIN f.ctx.modifiers = ModifierLabels(p, f.dsKey)
                /\ \A label \in DOMAIN f.ctx.modifiers :
                       \E k \in 2..PieceCount(text, ".") :
                           /\ PieceText(PieceText(text, ".", k), "_", 1) = label
                           /\ f.ctx.modifiers[label] = ArgumentsOf(PieceText(text, ".", k))

\* onLoad is called for the dataset name tK.m_a.n
C20_Witness ==
    /\ Len(stack) > 0
    /\ Top.phase = "onLoad"
    /\ Top.dsKey = << "t", "K", ".", "m", "_", "a", ".", "n" >>
    /\ Top.ctx.key = << "k" >>
    /\ Top.ctx.modifiers[<< "m" >>] = << << "a" >> >>
    /\ Top.ctx.modifiers[<< "n" >>] = << >>

=============================================================================
